---- MODULE Spec2Model ----
(***************************************************************************)
(* State-machine model of journal_bot (src/bot.py).                        *)
(*                                                                         *)
(* The bot is a set of cooperative asyncio tasks sharing module globals:   *)
(* one update handler at a time (the Application built at bot.py:576       *)
(* dispatches updates sequentially), the retention loop                    *)
(* delete_old_messages, and in timer mode the background_sync loop.  A     *)
(* task runs until it awaits; `running` names the task that holds the      *)
(* event loop, "loop" when every task is suspended.                        *)
(*                                                                         *)
(* The clock `now` counts ticks of TickHours hours; a tick is far longer   *)
(* than any stretch of code between two awaits (the subprocess timeouts    *)
(* are 120 s and 30 s), so the clock moves only while the tasks are        *)
(* suspended.  The collaborators (Telegram, the file system, git, the AI   *)
(* tool) may depart from their contract at most MaxFaults times in a run.  *)
(***************************************************************************)
EXTENDS Integers, Sequences, FiniteSets, TLC

\* ------------------------------------------------------------ bounds
MaxTime == 2
MaxUpdates == 2
MaxFaults == 2

\* ------------------------------------------------- program constants
ALLOWED_USER_ID == 1
MESSAGE_RETENTION_HOURS == 24
MESSAGE_SESSION_EXPIRY == 1
AUDIT_DEFAULT_COUNT == 10
AUDIT_MAX_COUNT == 50

\* One tick of the clock is the retention window
TickHours == MESSAGE_RETENTION_HOURS

RetentionTicks == MESSAGE_RETENTION_HOURS \div TickHours

Users == {ALLOWED_USER_ID, ALLOWED_USER_ID + 1}
NoToken == "none"

VARIABLES
    MESSAGE_SESSION,    \* configuration flag, fixed at start-up
    JOURNAL_SYNC_MODE,  \* "auto" or "timer", fixed at start-up
    now,                \* datetime.now(), in ticks
    running,            \* the task holding the event loop, or "loop"
    user_sessions,      \* user id -> [session_id, last_active]
    tracked_messages,   \* <<chat_id, message_id>> -> timestamp
    auditFile,          \* the lines of AUDIT_LOG_PATH
    auditTailOpen,      \* the last line of the file lacks its newline
    opLog,              \* the "AUDIT: ..." lines of the operational logger
    nextMsgId,          \* the next message id the chat hands out
    updates,            \* inbound updates dispatched so far
    faults,             \* departures of the collaborators so far
    deleterCalls,       \* <<chat_id, message_id>> -> delete_message calls
    lastUpdate,         \* the latest update_session call: [token, at]
    h,                  \* the update handler in flight
    sync,               \* the sync_repo call in flight
    sw,                 \* the retention loop
    timerPc             \* the timer sync loop

vars == <<MESSAGE_SESSION, JOURNAL_SYNC_MODE, now, running,
          user_sessions, tracked_messages, auditFile, auditTailOpen, opLog,
          nextMsgId, updates, faults, deleterCalls, lastUpdate, h, sync, sw,
          timerPc>>

Config == <<MESSAGE_SESSION, JOURNAL_SYNC_MODE>>

\* A collaborator's outcome is within the fault budget
Affordable(bad) == bad => faults < MaxFaults

Charged(bad) == IF bad THEN faults + 1 ELSE faults

\* ------------------------------------------------------------ audit log
\* One JSON line: the event, the user, the update it belongs to, the exit
\* code of a QUERY
Entry(event, user, upd, exit_code) ==
    [event |-> event, user_id |-> user, upd |-> upd, exit_code |-> exit_code]

CorruptLine == Entry("CORRUPT", 0, 0, 0)

WellFormed(line) == line # CorruptLine

WriteOutcomes == {"ok", "fail", "partial"}

\* The file after audit_log tried to append `entry`: the whole line, nothing,
\* or a partial line without its newline.  Text appended after a partial
\* line lands on that same line.
AuditFileAfter(entry, outcome) ==
    CASE outcome = "ok" ->
           IF auditTailOpen THEN auditFile ELSE Append(auditFile, entry)
      [] outcome = "partial" ->
           IF auditTailOpen THEN auditFile ELSE Append(auditFile, CorruptLine)
      [] OTHER -> auditFile

AuditTailAfter(outcome) ==
    CASE outcome = "ok" -> FALSE
      [] outcome = "partial" -> TRUE
      [] OTHER -> auditTailOpen

\* Variant: an entry whose write failed is not logged either
audit_log_Silent(entry, outcome) ==
    /\ Affordable(outcome # "ok")
    /\ faults' = Charged(outcome # "ok")
    /\ auditFile' = AuditFileAfter(entry, outcome)
    /\ auditTailOpen' = AuditTailAfter(outcome)
    /\ opLog' = IF outcome = "ok" THEN Append(opLog, entry) ELSE opLog

\* The write may fail; the logger line is emitted either way
audit_log(entry, outcome) ==
    /\ Affordable(outcome # "ok")
    /\ faults' = Charged(outcome # "ok")
    /\ auditFile' = AuditFileAfter(entry, outcome)
    /\ auditTailOpen' = AuditTailAfter(outcome)
    /\ opLog' = Append(opLog, entry)

NoAudit == UNCHANGED <<auditFile, auditTailOpen, opLog>>

\* Python's lines[k:]
SliceFrom(lines, k) ==
    LET n == Len(lines)
        start == IF k < 0 THEN (IF n + k < 0 THEN 0 ELSE n + k)
                          ELSE (IF k > n THEN n ELSE k)
    IN  SubSeq(lines, start + 1, n)

RecentLines(lines, count) ==
    IF Len(lines) >= count THEN SliceFrom(lines, 0 - count) ELSE lines

\* json.loads of every selected line; any failure returns []
get_recent_audit_entries(lines, count) ==
    LET recent == RecentLines(lines, count)
    IN  IF \A i \in 1..Len(recent) : WellFormed(recent[i])
        THEN recent
        ELSE << >>

\* ------------------------------------------------------------ sessions
Session(token, at) == [session_id |-> token, last_active |-> at]

\* Variant: a session counts as expired already at last_active + expiry
SessionExpired_AtDeadline(session, t) ==
    t >= session.last_active + MESSAGE_SESSION_EXPIRY

SessionExpired(session, t) == t > session.last_active + MESSAGE_SESSION_EXPIRY

SessionsEnabled == MESSAGE_SESSION

NoSession == Session(NoToken, 0)

\* user_sessions.get(user_id), when sessions are enabled
FoundSession(user) ==
    IF SessionsEnabled /\ user \in DOMAIN user_sessions
    THEN user_sessions[user]
    ELSE NoSession

\* The token get_active_session returns
ActiveSessionResult(user) ==
    IF ~SessionsEnabled THEN NoToken
    ELSE IF user \notin DOMAIN user_sessions THEN NoToken
    ELSE IF SessionExpired(user_sessions[user], now) THEN NoToken
    ELSE user_sessions[user].session_id

\* The session map get_active_session leaves behind
ActiveSessionMap(user) ==
    IF /\ SessionsEnabled
       /\ user \in DOMAIN user_sessions
       /\ SessionExpired(user_sessions[user], now)
    THEN [u \in DOMAIN user_sessions \ {user} |-> user_sessions[u]]
    ELSE user_sessions

UpdatedSessions(user, token) ==
    [u \in DOMAIN user_sessions \cup {user} |->
        IF u = user THEN Session(token, now) ELSE user_sessions[u]]

\* ------------------------------------------------------------ tracking
Key(chat_id, message_id) == <<chat_id, message_id>>

Tracked(map, key, t) ==
    [k \in DOMAIN map \cup {key} |-> IF k = key THEN t ELSE map[k]]

Untracked(map, key) == [k \in DOMAIN map \ {key} |-> map[k]]

\* ------------------------------------------------------------ bot API
\* A completed send: the chat hands out the message id, the sender tracks it
SendTracked ==
    /\ tracked_messages' = Tracked(tracked_messages, Key(ALLOWED_USER_ID, nextMsgId), now)
    /\ nextMsgId' = nextMsgId + 1

NotSent == UNCHANGED <<tracked_messages, nextMsgId>>

\* ------------------------------------------------------------ sync_repo
ScriptOutcomes == {"exit0", "nonzero", "timeout", "error"}

PullResult(done, raised, returncode, uptodate) ==
    [done |-> done, raised |-> raised, returncode |-> returncode, uptodate |-> uptodate]

NoPull == PullResult(FALSE, FALSE, 0, FALSE)

\* subprocess.run(["git", "pull"], timeout=30): an exception, or an exit
\* code with or without "Already up to date" on stdout
PullOutcomes ==
    {PullResult(TRUE, TRUE, 0, FALSE)}
      \cup {PullResult(TRUE, FALSE, rc, m) : rc \in {0, 1}, m \in BOOLEAN}

IdleSync ==
    [pc |-> "idle", owner |-> "none", context |-> FALSE, silent |-> FALSE,
     scriptPresent |-> FALSE, scriptRes |-> "none", pullRes |-> NoPull,
     pullCalls |-> 0,
     scriptWarn |-> 0, pullWarn |-> 0, result |-> "none"]

\* Variant: sync_repo forgets that it was asked to be silent
NewSync_Loud(owner, context, silent, present) ==
    [IdleSync EXCEPT !.pc = IF present THEN "script_run" ELSE "pull_run",
                     !.owner = owner, !.context = context, !.silent = FALSE,
                     !.scriptPresent = present,
                     !.pullCalls = IF present THEN 0 ELSE 1]

\* sync_repo is entered: os.path.exists(script) and os.access(script, X_OK)
\* pick the script or, when it is absent, the pull
NewSync(owner, context, silent, present) ==
    [IdleSync EXCEPT !.pc = IF present THEN "script_run" ELSE "pull_run",
                     !.owner = owner, !.context = context, !.silent = silent,
                     !.scriptPresent = present,
                     !.pullCalls = IF present THEN 0 ELSE 1]

\* Variant: send_warning sends whenever it has a context and a chat id
Notifies_Always(s) == s.context

\* send_warning sends only with a context and a chat id and when not silent
Notifies(s) == s.context /\ ~s.silent

ScriptSucceeded(outcome) == outcome = "exit0"

\* Variant: every non-zero exit warns, "Already up to date" or not
PullNeedsWarning_AnyNonZero(res) == res.returncode # 0

PullNeedsWarning(res) == res.returncode # 0 /\ ~res.uptodate

SyncUnchanged ==
    UNCHANGED <<Config, now, user_sessions, auditFile, auditTailOpen, opLog,
                updates, deleterCalls, lastUpdate, h, sw, timerPc>>

\* subprocess.run(["bash", script], timeout=120) returns or raises
SyncScriptDone ==
    /\ sync.pc = "script_run"
    /\ running = sync.owner
    /\ \E outcome \in ScriptOutcomes :
         LET s == [sync EXCEPT !.scriptRes = outcome]
             warnPc == CASE outcome = "nonzero" -> "warn_script"
                         [] outcome = "timeout" -> "warn_timeout"
                         [] OTHER -> "warn_script_exc"
         IN  /\ Affordable(outcome # "exit0")
             /\ faults' = Charged(outcome # "exit0")
             /\ IF ScriptSucceeded(outcome)
                THEN /\ sync' = [s EXCEPT !.pc = "done", !.result = "true"]
                     /\ UNCHANGED running
                ELSE IF Notifies(s)
                THEN /\ sync' = [s EXCEPT !.pc = warnPc, !.scriptWarn = @ + 1]
                     /\ running' = "loop"
                ELSE /\ sync' = [s EXCEPT !.pc = "pull_run", !.pullCalls = @ + 1]
                     /\ UNCHANGED running
    /\ UNCHANGED <<tracked_messages, nextMsgId>>
    /\ SyncUnchanged

\* The awaited send_message of a script-phase warning completes or raises.
\* Inside the try (non-zero exit) a raise lands in `except Exception`, which
\* warns again; inside an except clause it leaves sync_repo.
SyncScriptWarnDone ==
    /\ sync.pc \in {"warn_script", "warn_timeout", "warn_script_exc"}
    /\ running = "loop"
    /\ \E sent \in BOOLEAN :
         /\ Affordable(~sent)
         /\ faults' = Charged(~sent)
         /\ IF sent
            THEN /\ SendTracked
                 /\ sync' = [sync EXCEPT !.pc = "pull_run", !.pullCalls = @ + 1]
                 /\ running' = sync.owner
            ELSE IF sync.pc = "warn_script"
            THEN /\ sync' = [sync EXCEPT !.pc = "warn_script_exc", !.scriptWarn = @ + 1]
                 /\ UNCHANGED running
                 /\ NotSent
            ELSE /\ sync' = [sync EXCEPT !.pc = "done", !.result = "raised"]
                 /\ running' = sync.owner
                 /\ NotSent
    /\ SyncUnchanged

\* subprocess.run(["git", "pull"], timeout=30) returns or raises
SyncPullDone ==
    /\ sync.pc = "pull_run"
    /\ running = sync.owner
    /\ \E res \in PullOutcomes :
         LET s == [sync EXCEPT !.pullRes = res]
             bad == res.raised \/ res.returncode # 0
         IN  /\ Affordable(bad)
             /\ faults' = Charged(bad)
             /\ IF res.raised
                THEN IF Notifies(s)
                     THEN /\ sync' = [s EXCEPT !.pc = "warn_pull_exc", !.pullWarn = @ + 1]
                          /\ running' = "loop"
                     ELSE /\ sync' = [s EXCEPT !.pc = "done", !.result = "false"]
                          /\ UNCHANGED running
                ELSE IF PullNeedsWarning(res) /\ Notifies(s)
                     THEN /\ sync' = [s EXCEPT !.pc = "warn_pull", !.pullWarn = @ + 1]
                          /\ running' = "loop"
                     ELSE /\ sync' = [s EXCEPT !.pc = "done", !.result = "true"]
                          /\ UNCHANGED running
    /\ UNCHANGED <<tracked_messages, nextMsgId>>
    /\ SyncUnchanged

\* The awaited send_message of a pull-phase warning completes or raises
SyncPullWarnDone ==
    /\ sync.pc \in {"warn_pull", "warn_pull_exc"}
    /\ running = "loop"
    /\ \E sent \in BOOLEAN :
         /\ Affordable(~sent)
         /\ faults' = Charged(~sent)
         /\ IF sent
            THEN /\ SendTracked
                 /\ sync' = [sync EXCEPT !.pc = "done",
                               !.result = IF sync.pc = "warn_pull" THEN "true" ELSE "false"]
                 /\ running' = sync.owner
            ELSE IF sync.pc = "warn_pull"
            THEN /\ sync' = [sync EXCEPT !.pc = "warn_pull_exc", !.pullWarn = @ + 1]
                 /\ UNCHANGED running
                 /\ NotSent
            ELSE /\ sync' = [sync EXCEPT !.pc = "done", !.result = "raised"]
                 /\ running' = sync.owner
                 /\ NotSent
    /\ SyncUnchanged

\* ------------------------------------------------------------ handlers
Kinds == {"start", "health", "audit", "message"}

\* context.args of /audit: nothing, a non-numeric word, or an integer
AuditArg(given, numeric, value) == [given |-> given, numeric |-> numeric, value |-> value]

NoArg == AuditArg(FALSE, FALSE, 0)

AuditArgs ==
    {NoArg, AuditArg(TRUE, FALSE, 0)}
      \cup {AuditArg(TRUE, TRUE, v) : v \in {0 - 1, 0, 1, AUDIT_MAX_COUNT + 10}}

Min(a, b) == IF a < b THEN a ELSE b

\* count = int(context.args[0]) if context.args else 10; min(count, 50);
\* ValueError: 10
AuditCount(arg) ==
    IF ~arg.given THEN Min(AUDIT_DEFAULT_COUNT, AUDIT_MAX_COUNT)
    ELSE IF ~arg.numeric THEN AUDIT_DEFAULT_COUNT
    ELSE Min(arg.value, AUDIT_MAX_COUNT)

Cmd(kind, token, json) == [kind |-> kind, token |-> token, json |-> json]

NoCmd == Cmd("none", NoToken, FALSE)

\* The command line built for the AI tool
BuildCmd(active_session) ==
    IF SessionsEnabled
    THEN IF active_session # NoToken
         THEN Cmd("resume", active_session, TRUE)
         ELSE Cmd("new", NoToken, TRUE)
    ELSE Cmd("new", NoToken, FALSE)

\* What process.communicate() hands back: the exit code and the kind of
\* stdout (a JSON object with or without session_id, JSON that is no
\* object, plain text, nothing)
ToolOut(returncode, stdout, session_id) ==
    [returncode |-> returncode, stdout |-> stdout, session_id |-> session_id]

NoTool == ToolOut(0, "none", NoToken)

\* The session id of an answer: the tool hands out one per request
FreshToken(upd) == ToString(upd)

ToolOutcomes(upd) ==
    {ToolOut(rc, "json", FreshToken(upd)) : rc \in {0, 1}}
      \cup {ToolOut(rc, k, NoToken) :
              rc \in {0, 1}, k \in {"json_nosid", "json_notobj", "text", "empty"}}

\* The tool kept its contract: exit 0 with an answer
ToolNominal(out) == out.returncode = 0 /\ out.stdout \in {"json", "text"}

\* json.loads succeeds and the value has .get
ParsesAsObject(out) == out.stdout \in {"json", "json_nosid"}

\* json.loads succeeds on a value without .get: AttributeError
ParseRaises(out) == out.stdout = "json_notobj"

\* Variant: the output is parsed for a session id whatever the flag says
ParsesStructured_Always == TRUE

\* The branch of handle_message that parses structured output
ParsesStructured == MESSAGE_SESSION

\* Variant: the identity check lets every caller through
Authorized_Anyone(user) == user \in Users

Authorized(user) == user = ALLOWED_USER_ID

IdleHandler ==
    [pc |-> "idle", user |-> 0, kind |-> "none", upd |-> 0, arg |-> NoArg,
     count |-> 0, entries |-> << >>, session |-> NoSession,
     active_session |-> NoToken, cmd |-> NoCmd, tool |-> NoTool]

HandlerUnchanged == UNCHANGED <<Config, now, deleterCalls, sw, timerPc>>

\* An update from a caller other than ALLOWED_USER_ID: audited, dropped
ReceiveUnauthorized ==
    /\ h.pc = "idle" /\ running = "loop" /\ updates < MaxUpdates
    /\ \E user \in Users, kind \in Kinds, written \in WriteOutcomes :
         /\ ~Authorized(user)
         /\ audit_log(Entry("UNAUTHORIZED", user, updates + 1, 0), written)
    /\ updates' = updates + 1
    /\ UNCHANGED <<running, user_sessions, tracked_messages, nextMsgId,
                   lastUpdate, h, sync>>
    /\ HandlerUnchanged

\* start, health_check, audit_view up to the awaited send_message
ReceiveCommand ==
    /\ h.pc = "idle" /\ running = "loop" /\ updates < MaxUpdates
    /\ \E user \in Users, kind \in Kinds \ {"message"}, arg \in AuditArgs,
          written \in WriteOutcomes :
         /\ Authorized(user)
         /\ kind # "audit" => arg = NoArg
         /\ audit_log(Entry("COMMAND", user, updates + 1, 0), written)
         /\ h' = [IdleHandler EXCEPT
                    !.pc = "cmd_send", !.user = user, !.kind = kind,
                    !.upd = updates + 1, !.arg = arg,
                    !.count = IF kind = "audit" THEN AuditCount(arg) ELSE 0,
                    !.entries = IF kind = "audit"
                                THEN get_recent_audit_entries(auditFile', AuditCount(arg))
                                ELSE << >>]
    /\ tracked_messages' = Tracked(tracked_messages, Key(ALLOWED_USER_ID, nextMsgId), now)
    /\ nextMsgId' = nextMsgId + 1
    /\ updates' = updates + 1
    /\ UNCHANGED <<running, user_sessions, lastUpdate, sync>>
    /\ HandlerUnchanged

\* The command's reply was sent (and is tracked), or send_message raised
CmdSendDone ==
    /\ h.pc = "cmd_send" /\ running = "loop"
    /\ \E sent \in BOOLEAN :
         /\ Affordable(~sent)
         /\ faults' = Charged(~sent)
         /\ IF sent THEN SendTracked ELSE NotSent
    /\ h' = IdleHandler
    /\ NoAudit
    /\ UNCHANGED <<running, user_sessions, updates, lastUpdate, sync>>
    /\ HandlerUnchanged

\* handle_message up to the awaited send of the status message
ReceiveMessage ==
    /\ h.pc = "idle" /\ running = "loop" /\ updates < MaxUpdates
    /\ \E user \in Users :
         /\ Authorized(user)
         /\ h' = [IdleHandler EXCEPT !.pc = "send_status", !.user = user,
                                     !.kind = "message", !.upd = updates + 1]
    /\ tracked_messages' = Tracked(tracked_messages, Key(ALLOWED_USER_ID, nextMsgId), now)
    /\ nextMsgId' = nextMsgId + 1
    /\ updates' = updates + 1
    /\ NoAudit
    /\ UNCHANGED <<running, user_sessions, faults, lastUpdate, sync>>
    /\ HandlerUnchanged

\* The status message was sent: track it, then the pre-query sync in auto
\* mode.  A raise leaves handle_message.
StatusSendDone ==
    /\ h.pc = "send_status" /\ running = "loop"
    /\ \E sent \in BOOLEAN, present \in BOOLEAN :
         /\ Affordable(~sent)
         /\ faults' = Charged(~sent)
         /\ IF sent
            THEN /\ SendTracked
                 /\ running' = "handler"
                 /\ IF JOURNAL_SYNC_MODE = "auto"
                    THEN /\ h' = [h EXCEPT !.pc = "pre_sync"]
                         /\ sync' = NewSync("handler", TRUE, FALSE, present)
                    ELSE /\ h' = [h EXCEPT !.pc = "resolve"]
                         /\ UNCHANGED sync
            ELSE /\ h' = IdleHandler
                 /\ NotSent
                 /\ UNCHANGED <<running, sync>>
    /\ NoAudit
    /\ UNCHANGED <<user_sessions, updates, lastUpdate>>
    /\ HandlerUnchanged

\* sync_repo returned to handle_message.  The pre-query call is outside
\* the try: an exception leaves the handler.  The post-query call is
\* inside it.
HandlerSyncReturn ==
    /\ h.pc \in {"pre_sync", "post_sync"} /\ running = "handler"
    /\ sync.pc = "done"
    /\ sync' = IdleSync
    /\ h' = IF sync.result = "raised"
            THEN IF h.pc = "pre_sync" THEN IdleHandler ELSE [h EXCEPT !.pc = "err_edit"]
            ELSE IF h.pc = "pre_sync" THEN [h EXCEPT !.pc = "resolve"] ELSE IdleHandler
    /\ running' = IF h'.pc = "resolve" THEN "handler" ELSE "loop"
    /\ NoAudit
    /\ UNCHANGED <<user_sessions, tracked_messages, nextMsgId, updates, faults,
                   lastUpdate>>
    /\ HandlerUnchanged

\* get_active_session, the command line, create_subprocess_exec; a failure
\* to start the process lands in the except clause, which edits the status
\* message
HandlerResolve ==
    /\ h.pc = "resolve" /\ running = "handler"
    /\ user_sessions' = ActiveSessionMap(h.user)
    /\ \E spawned \in BOOLEAN :
         LET active == ActiveSessionResult(h.user)
         IN  /\ Affordable(~spawned)
             /\ faults' = Charged(~spawned)
             /\ h' = [h EXCEPT !.session = FoundSession(h.user),
                               !.active_session = active, !.cmd = BuildCmd(active),
                               !.pc = IF spawned THEN "tool" ELSE "err_edit"]
    /\ running' = "loop"
    /\ NoAudit
    /\ UNCHANGED <<tracked_messages, nextMsgId, updates, lastUpdate, sync>>
    /\ HandlerUnchanged

\* communicate() returned: parse, update_session, then the awaited edit of
\* the status message
ToolDone ==
    /\ h.pc = "tool" /\ running = "loop"
    /\ \E out \in ToolOutcomes(h.upd) :
         LET stores == ParsesStructured /\ ParsesAsObject(out) /\ out.session_id # NoToken
             raises == ParsesStructured /\ ParseRaises(out)
         IN  /\ Affordable(~ToolNominal(out))
             /\ faults' = Charged(~ToolNominal(out))
             /\ h' = [h EXCEPT !.tool = out, !.pc = IF raises THEN "err_edit" ELSE "edit"]
             /\ IF stores
                THEN /\ user_sessions' = UpdatedSessions(h.user, out.session_id)
                     /\ lastUpdate' = [token |-> out.session_id, at |-> now]
                ELSE UNCHANGED <<user_sessions, lastUpdate>>
    /\ NoAudit
    /\ UNCHANGED <<running, tracked_messages, nextMsgId, updates, sync>>
    /\ HandlerUnchanged

\* The edit with the answer went through: the QUERY entry, then the silent
\* post-query sync in auto mode.  A raise lands in the except clause.
EditDone ==
    /\ h.pc = "edit" /\ running = "loop"
    /\ \E edited \in BOOLEAN, written \in WriteOutcomes, present \in BOOLEAN :
         IF edited
         THEN /\ audit_log(Entry("QUERY", h.user, h.upd, h.tool.returncode),
                           written)
              /\ IF JOURNAL_SYNC_MODE = "auto"
                 THEN /\ h' = [IdleHandler EXCEPT !.pc = "post_sync", !.user = h.user,
                                                  !.kind = h.kind, !.upd = h.upd]
                      /\ sync' = NewSync("handler", TRUE, TRUE, present)
                      /\ running' = "handler"
                 ELSE /\ h' = IdleHandler
                      /\ UNCHANGED <<sync, running>>
         ELSE /\ written = "ok"
              /\ Affordable(TRUE)
              /\ faults' = Charged(TRUE)
              /\ h' = [h EXCEPT !.pc = "err_edit"]
              /\ NoAudit
              /\ UNCHANGED <<sync, running>>
    /\ UNCHANGED <<user_sessions, tracked_messages, nextMsgId, updates, lastUpdate>>
    /\ HandlerUnchanged

\* The except clause: the edit with the error text, then the ERROR entry;
\* a raise of that edit leaves handle_message before the entry
ErrEditDone ==
    /\ h.pc = "err_edit" /\ running = "loop"
    /\ \E edited \in BOOLEAN, written \in WriteOutcomes :
         IF edited
         THEN audit_log(Entry("ERROR", h.user, h.upd, 0), written)
         ELSE /\ written = "ok"
              /\ Affordable(TRUE)
              /\ faults' = Charged(TRUE)
              /\ NoAudit
    /\ h' = IdleHandler
    /\ UNCHANGED <<running, user_sessions, tracked_messages, nextMsgId, updates,
                   lastUpdate, sync>>
    /\ HandlerUnchanged

\* ------------------------------------------------------------ retention loop
RECURSIVE KeysInOrder(_)
\* The keys of a set in the order the dict lists them (insertion order:
\* message ids grow)
KeysInOrder(S) ==
    IF S = {} THEN << >>
    ELSE LET k == CHOOSE x \in S : \A y \in S : x[2] <= y[2]
         IN  <<k>> \o KeysInOrder(S \ {k})

IsOld(timestamp, cutoff_time) == timestamp < cutoff_time

\* Variant: the pass lists every tracked message, old or not
messages_to_delete_All(current_time) == KeysInOrder(DOMAIN tracked_messages)

messages_to_delete(current_time) ==
    KeysInOrder({k \in DOMAIN tracked_messages :
                    IsOld(tracked_messages[k], current_time - RetentionTicks)})

\* Variant: a failed delete_message keeps the key tracked
TrackedAfterDelete_KeepFailed(map, key, deleted) ==
    IF deleted THEN Untracked(map, key) ELSE map

\* Both branches around delete_message drop the key from tracking
TrackedAfterDelete(map, key, deleted) == Untracked(map, key)

\* Variant: the expiry pass forgets the expiry duration
SessionStale_NoGrace(session, current_time) == session.last_active < current_time

\* Variant: a session exactly at its deadline is swept already
SessionStale_AtCutoff(session, current_time) ==
    session.last_active <= current_time - MESSAGE_SESSION_EXPIRY

SessionStale(session, current_time) ==
    session.last_active < current_time - MESSAGE_SESSION_EXPIRY

\* Variant: the retention loop has no expiry pass
SweptSessions_Never(current_time) == user_sessions

\* The explicit expiry pass of the retention loop
SweptSessions(current_time) ==
    IF SessionsEnabled
    THEN [u \in {x \in DOMAIN user_sessions :
                    ~SessionStale(user_sessions[x], current_time)} |-> user_sessions[u]]
    ELSE user_sessions

CountCall(calls, key) ==
    [k \in DOMAIN calls \cup {key} |->
        IF k = key THEN (IF k \in DOMAIN calls THEN calls[k] + 1 ELSE 1) ELSE calls[k]]

\* `failed`: the keys of this pass whose delete_message raised
Sleeping == [pc |-> "sleep", current_time |-> 0, todo |-> << >>, failed |-> {}]

SweepUnchanged ==
    UNCHANGED <<Config, now, running, auditFile, auditTailOpen, opLog, nextMsgId,
                updates, lastUpdate, h, sync, timerPc>>

\* A pass begins: read the clock, list the old messages, and either await
\* the first delete_message or go straight to the session pass
SweepStart ==
    /\ sw.pc = "sleep" /\ running = "loop"
    /\ LET todo == messages_to_delete(now)
       IN  IF todo = << >>
           THEN /\ user_sessions' = SweptSessions(now)
                /\ sw' = Sleeping
                /\ UNCHANGED deleterCalls
           ELSE /\ sw' = [pc |-> "deleting", current_time |-> now, todo |-> todo,
                          failed |-> {}]
                /\ deleterCalls' = CountCall(deleterCalls, Head(todo))
                /\ UNCHANGED user_sessions
    /\ UNCHANGED <<tracked_messages, faults>>
    /\ SweepUnchanged

\* delete_message returned or raised: drop the key, then the next message
\* or the session pass and the sleep
SweepDeleteDone ==
    /\ sw.pc = "deleting" /\ running = "loop"
    /\ \E deleted \in BOOLEAN :
         LET rest == Tail(sw.todo)
             failed == IF deleted THEN sw.failed ELSE sw.failed \cup {Head(sw.todo)}
         IN  /\ Affordable(~deleted)
             /\ faults' = Charged(~deleted)
             /\ tracked_messages' =
                    TrackedAfterDelete(tracked_messages, Head(sw.todo), deleted)
             /\ IF rest = << >>
                THEN /\ user_sessions' = SweptSessions(sw.current_time)
                     /\ sw' = Sleeping
                     /\ UNCHANGED deleterCalls
                ELSE /\ sw' = [sw EXCEPT !.todo = rest, !.failed = failed]
                     /\ deleterCalls' = CountCall(deleterCalls, Head(rest))
                     /\ UNCHANGED user_sessions
    /\ SweepUnchanged

\* ------------------------------------------------------------ timer loop
TimerUnchanged ==
    UNCHANGED <<Config, now, user_sessions, tracked_messages, auditFile,
                auditTailOpen, opLog, nextMsgId, updates, faults, deleterCalls,
                lastUpdate, h, sw>>

\* asyncio.sleep(interval) is over: sync_repo(silent=True)
TimerWake ==
    /\ timerPc = "sleep" /\ running = "loop"
    /\ timerPc' = "syncing"
    /\ \E present \in BOOLEAN : sync' = NewSync("timer", FALSE, TRUE, present)
    /\ running' = "timer"
    /\ TimerUnchanged

TimerSyncReturn ==
    /\ timerPc = "syncing" /\ running = "timer"
    /\ sync.pc = "done"
    /\ timerPc' = "sleep"
    /\ sync' = IdleSync
    /\ running' = "loop"
    /\ TimerUnchanged

\* ------------------------------------------------------------ clock
Tick ==
    /\ running = "loop"
    /\ now < MaxTime
    /\ now' = now + 1
    /\ UNCHANGED <<Config, running, user_sessions, tracked_messages, auditFile,
                   auditTailOpen, opLog, nextMsgId, updates, faults, deleterCalls,
                   lastUpdate, h, sync, sw, timerPc>>

\* ------------------------------------------------------------ specification
StartupEntry == Entry("STARTUP", 0, 0, 0)

NoUpdate == [token |-> NoToken, at |-> 0]

\* After start-up: the STARTUP entry is audited, post_init has created the
\* retention loop and, in timer mode, the timer loop
Init ==
    /\ MESSAGE_SESSION \in BOOLEAN
    /\ JOURNAL_SYNC_MODE \in {"auto", "timer"}
    /\ now = 0
    /\ running = "loop"
    /\ user_sessions = << >>
    /\ tracked_messages = << >>
    /\ auditFile = <<StartupEntry>>
    /\ auditTailOpen = FALSE
    /\ opLog = <<StartupEntry>>
    /\ nextMsgId = 1
    /\ updates = 0
    /\ faults = 0
    /\ deleterCalls = << >>
    /\ lastUpdate = NoUpdate
    /\ h = IdleHandler
    /\ sync = IdleSync
    /\ sw = Sleeping
    /\ timerPc = IF JOURNAL_SYNC_MODE = "timer" THEN "sleep" ELSE "off"

Next ==
    \/ ReceiveUnauthorized
    \/ ReceiveCommand
    \/ CmdSendDone
    \/ ReceiveMessage
    \/ StatusSendDone
    \/ HandlerSyncReturn
    \/ HandlerResolve
    \/ ToolDone
    \/ EditDone
    \/ ErrEditDone
    \/ SyncScriptDone
    \/ SyncScriptWarnDone
    \/ SyncPullDone
    \/ SyncPullWarnDone
    \/ SweepStart
    \/ SweepDeleteDone
    \/ TimerWake
    \/ TimerSyncReturn
    \/ Tick

Spec == Init /\ [][Next]_vars

\* ------------------------------------------------------------ answer text
\* The data path of one query, from communicate() to the QUERY entry, over
\* concrete texts
TRUNCATE_LIMIT == 3900

TRUNCATE_MARK == "\n...(truncated)"

EMPTY_PLACEHOLDER == "Empty response from Claude."

HikeQuery == "What did I write last Tuesday?"

HikeText == "You wrote about the hike."

SessionJson == "{\"session_id\": \"abc123\", \"result\": \"Done.\"}"

RECURSIVE Rep(_, _)
\* s * n
Rep(s, n) ==
    IF n = 0 THEN ""
    ELSE IF n % 2 = 0 THEN LET half == Rep(s, n \div 2) IN half \o half
    ELSE s \o Rep(s, n - 1)

LimitText == Rep("abcdefghij", TRUNCATE_LIMIT \div 10)

IsSpace(c) == c \in {" ", "\n", "\t"}

RECURSIVE LStrip(_)
LStrip(s) ==
    IF Len(s) > 0 /\ IsSpace(SubSeq(s, 1, 1))
    THEN LStrip(SubSeq(s, 2, Len(s)))
    ELSE s

RECURSIVE RStrip(_)
RStrip(s) ==
    IF Len(s) > 0 /\ IsSpace(SubSeq(s, Len(s), Len(s)))
    THEN RStrip(SubSeq(s, 1, Len(s) - 1))
    ELSE s

\* str.strip()
Strip(s) == RStrip(LStrip(s))

\* What json.loads makes of a text: no JSON, a JSON value that is no
\* object, or an object with its session_id and result keys
Parsed(kind, session_id, has_result, result) ==
    [kind |-> kind, session_id |-> session_id, has_result |-> has_result,
     result |-> result]

ParseOf(text) ==
    CASE text = SessionJson -> Parsed("object", "abc123", TRUE, "Done.")
      [] text = "{}" -> Parsed("object", NoToken, FALSE, "")
      [] text = "[1]" -> Parsed("notobj", NoToken, FALSE, "")
      [] OTHER -> Parsed("invalid", NoToken, FALSE, "")

Reply(stdout, stderr, returncode) ==
    [stdout |-> stdout, stderr |-> stderr, returncode |-> returncode]

Queries == {HikeQuery, "hi"}

Stdouts ==
    {HikeText, "  " \o HikeText \o "\n", "", LimitText, LimitText \o "x",
     SessionJson, "{}", "[1]"}

Replies == {Reply(o, e, rc) : o \in Stdouts, e \in {"", "boom\n"}, rc \in {0, 1}}

\* raw_output = stdout.decode().strip()
RawOutput(reply) == Strip(reply.stdout)

\* result_data.get raises on a JSON value that is no object
TextParseRaises(reply) ==
    MESSAGE_SESSION /\ ParseOf(RawOutput(reply)).kind = "notobj"

\* The session id update_session is called with, if any
TextSessionId(reply) ==
    IF MESSAGE_SESSION /\ ParseOf(RawOutput(reply)).kind = "object"
    THEN ParseOf(RawOutput(reply)).session_id
    ELSE NoToken

\* output after the parse branch
ParsedBody(reply) ==
    LET parsed == ParseOf(RawOutput(reply))
    IN  IF MESSAGE_SESSION /\ parsed.kind = "object" /\ parsed.has_result
        THEN parsed.result
        ELSE RawOutput(reply)

\* if not output: stderr or the placeholder
NonEmptyBody(body, reply) ==
    IF Len(body) > 0 THEN body
    ELSE IF Len(Strip(reply.stderr)) > 0 THEN Strip(reply.stderr)
    ELSE EMPTY_PLACEHOLDER

\* Variant: every answer counts as too long
NeedsTruncation_Always(output) == Len(output) >= 0

NeedsTruncation(output) == Len(output) > TRUNCATE_LIMIT

Truncated(output) ==
    IF NeedsTruncation(output)
    THEN SubSeq(output, 1, Min(TRUNCATE_LIMIT, Len(output))) \o TRUNCATE_MARK
    ELSE output

ResponseBody(reply) == Truncated(NonEmptyBody(ParsedBody(reply), reply))

\* format_for_telegram: the MarkdownV2 rendering of the text, or the text
\* itself without parse mode when the conversion raised
Formatted(text, converted) ==
    IF converted
    THEN [markdownify |-> text, parse_mode |-> "MarkdownV2"]
    ELSE [text |-> text, parse_mode |-> "none"]

NotShown == [text |-> "", parse_mode |-> "none"]

QueryEntry(hh) ==
    Entry("QUERY", hh.user, hh.upd, hh.reply.returncode)
      @@ [query_length |-> Len(hh.user_query),
          response_length |-> Len(hh.output), status |-> "success"]

ErrorEntry(hh) ==
    Entry("ERROR", hh.user, hh.upd, 0)
      @@ [query_length |-> Len(hh.user_query), status |-> "error"]

\* handle_message waiting for communicate()
TextHandler(user_query, reply) ==
    [pc |-> "tool", user |-> ALLOWED_USER_ID, kind |-> "message", upd |-> 1,
     user_query |-> user_query, reply |-> reply, output |-> "",
     shown |-> NotShown]

TextUnchanged ==
    UNCHANGED <<Config, now, running, tracked_messages, nextMsgId, updates,
                deleterCalls, sync, sw, timerPc>>

\* communicate() returned: strip, parse, update_session, substitute,
\* truncate
TextToolDone ==
    /\ h.pc = "tool"
    /\ h' = [h EXCEPT !.output = IF TextParseRaises(h.reply) THEN ""
                                 ELSE ResponseBody(h.reply),
                      !.pc = IF TextParseRaises(h.reply) THEN "err_edit" ELSE "edit"]
    /\ IF TextSessionId(h.reply) # NoToken
       THEN /\ user_sessions' = UpdatedSessions(h.user, TextSessionId(h.reply))
            /\ lastUpdate' = [token |-> TextSessionId(h.reply), at |-> now]
       ELSE UNCHANGED <<user_sessions, lastUpdate>>
    /\ NoAudit
    /\ UNCHANGED faults
    /\ TextUnchanged

\* The formatted answer replaced the status message: the QUERY entry
TextEditDone ==
    /\ h.pc = "edit"
    /\ \E edited \in BOOLEAN, converted \in BOOLEAN, written \in WriteOutcomes :
         IF edited
         THEN /\ audit_log(QueryEntry(h), written)
              /\ h' = [h EXCEPT !.pc = "done",
                                !.shown = Formatted(h.output, converted)]
         ELSE /\ written = "ok" /\ converted
              /\ Affordable(TRUE)
              /\ faults' = Charged(TRUE)
              /\ h' = [h EXCEPT !.pc = "err_edit"]
              /\ NoAudit
    /\ UNCHANGED <<user_sessions, lastUpdate>>
    /\ TextUnchanged

\* The except clause: the error text, then the ERROR entry
TextErrEditDone ==
    /\ h.pc = "err_edit"
    /\ \E edited \in BOOLEAN, written \in WriteOutcomes :
         IF edited
         THEN audit_log(ErrorEntry(h), written)
         ELSE /\ written = "ok"
              /\ Affordable(TRUE)
              /\ faults' = Charged(TRUE)
              /\ NoAudit
    /\ h' = [h EXCEPT !.pc = "done"]
    /\ UNCHANGED <<user_sessions, lastUpdate>>
    /\ TextUnchanged

\* Timer mode, no session stored, one text message of the allowed user
\* received: both its messages are tracked and the tool is running
TextInit ==
    /\ MESSAGE_SESSION \in BOOLEAN
    /\ JOURNAL_SYNC_MODE = "timer"
    /\ now = 0
    /\ running = "loop"
    /\ user_sessions = << >>
    /\ tracked_messages =
         Tracked(Tracked(<< >>, Key(ALLOWED_USER_ID, 1), 0), Key(ALLOWED_USER_ID, 2), 0)
    /\ auditFile = <<StartupEntry>>
    /\ auditTailOpen = FALSE
    /\ opLog = <<StartupEntry>>
    /\ nextMsgId = 3
    /\ updates = 1
    /\ faults = 0
    /\ deleterCalls = << >>
    /\ lastUpdate = NoUpdate
    /\ \E user_query \in Queries, reply \in Replies : h = TextHandler(user_query, reply)
    /\ sync = IdleSync
    /\ sw = Sleeping
    /\ timerPc = "sleep"

TextNext ==
    \/ TextToolDone
    \/ TextEditDone
    \/ TextErrEditDone

TextSpec == TextInit /\ [][TextNext]_vars

\* ------------------------------------------------------------ long audit log
\* The audit file lives on a mounted volume and is opened for appending:
\* a start finds the lines of earlier runs and adds its STARTUP entry
OldLineCounts ==
    {0, AUDIT_MAX_COUNT - 1, AUDIT_MAX_COUNT, AUDIT_MAX_COUNT + 1}

OldLines(n) == [i \in 1..n |-> Entry("QUERY", ALLOWED_USER_ID, 0, 0)]

AuditInit ==
    /\ MESSAGE_SESSION \in BOOLEAN
    /\ JOURNAL_SYNC_MODE = "timer"
    /\ now = 0
    /\ running = "loop"
    /\ user_sessions = << >>
    /\ tracked_messages = << >>
    /\ \E n \in OldLineCounts : auditFile = OldLines(n) \o <<StartupEntry>>
    /\ auditTailOpen = FALSE
    /\ opLog = <<StartupEntry>>
    /\ nextMsgId = 1
    /\ updates = 0
    /\ faults = 0
    /\ deleterCalls = << >>
    /\ lastUpdate = NoUpdate
    /\ h = IdleHandler
    /\ sync = IdleSync
    /\ sw = Sleeping
    /\ timerPc = "sleep"

AuditNext ==
    \/ ReceiveCommand
    \/ CmdSendDone

AuditSpec == AuditInit /\ [][AuditNext]_vars

\* ------------------------------------------------------------ progress
\* Sessions enabled; one update of another caller has been dropped and the
\* write of its UNAUTHORIZED entry failed
LiveInit ==
    /\ MESSAGE_SESSION = TRUE
    /\ JOURNAL_SYNC_MODE \in {"auto", "timer"}
    /\ now = 0
    /\ running = "loop"
    /\ user_sessions = << >>
    /\ tracked_messages = << >>
    /\ auditFile = <<StartupEntry>>
    /\ auditTailOpen = FALSE
    /\ opLog = <<StartupEntry, Entry("UNAUTHORIZED", ALLOWED_USER_ID + 1, 1, 0)>>
    /\ nextMsgId = 1
    /\ updates = 1
    /\ faults = 1
    /\ deleterCalls = << >>
    /\ lastUpdate = NoUpdate
    /\ h = IdleHandler
    /\ sync = IdleSync
    /\ sw = Sleeping
    /\ timerPc = IF JOURNAL_SYNC_MODE = "timer" THEN "sleep" ELSE "off"

\* A task that holds the event loop runs on to its next await: the script
\* and the pull are bounded by their timeouts, the rest is synchronous code
HolderFairness ==
    /\ WF_vars(SyncScriptDone)
    /\ WF_vars(SyncScriptWarnDone)
    /\ WF_vars(SyncPullDone)
    /\ WF_vars(SyncPullWarnDone)
    /\ WF_vars(HandlerSyncReturn)
    /\ WF_vars(HandlerResolve)
    /\ WF_vars(TimerSyncReturn)

\* The retention loop's sleep ends and its delete_message returns or times
\* out; the event loop runs a task that is ready whenever the running one
\* awaits, however often other tasks take their turn in between
SweepFairness ==
    /\ SF_vars(SweepStart)
    /\ SF_vars(SweepDeleteDone)

LiveSpec == LiveInit /\ [][Next]_vars /\ HolderFairness /\ SweepFairness

\* ------------------------------------------------------------ properties
Range(seq) == {seq[i] : i \in 1..Len(seq)}

LastN(seq, k) == SubSeq(seq, Len(seq) - k + 1, Len(seq))

\* The step in which handle_message calls get_active_session
LookupStep == h.pc = "resolve" /\ h'.pc # "resolve"

\* C1: with sessions enabled, a lookup made later than last_active + expiry
\* returns none and deletes the session; a lookup made no later returns the
\* stored token and leaves the session map as it was.
C1_LazyExpiry ==
    [][(LookupStep /\ MESSAGE_SESSION /\ h.user \in DOMAIN user_sessions) =>
          LET session == user_sessions[h.user]
          IN  IF now > session.last_active + MESSAGE_SESSION_EXPIRY
              THEN /\ h'.active_session = NoToken
                   /\ h.user \notin DOMAIN user_sessions'
              ELSE /\ h'.active_session = session.session_id
                   /\ user_sessions' = user_sessions]_vars

\* A lookup found a session and returned none: the session had expired
C1_Witness ==
    /\ MESSAGE_SESSION
    /\ h.pc = "tool"
    /\ h.session # NoSession
    /\ h.active_session = NoToken
    /\ h.user \notin DOMAIN user_sessions

\* C2: every tracked entry older than the cutoff of a pass is handed to the
\* deleter in that pass; for every key the deleter is invoked exactly once
\* over the whole run, and once its call is over the key is untracked,
\* whether the call succeeded or failed.
C2_SweepDropsOld ==
    /\ \A k \in DOMAIN deleterCalls :
         /\ deleterCalls[k] = 1
         /\ \/ sw.pc = "deleting" /\ k = Head(sw.todo)
            \/ k \notin DOMAIN tracked_messages
    /\ sw.pc = "deleting" =>
         /\ \A k \in DOMAIN tracked_messages :
              tracked_messages[k] < sw.current_time - RetentionTicks
                 => k \in Range(sw.todo)
         /\ \A k \in sw.failed :
              k \in DOMAIN deleterCalls /\ k \notin DOMAIN tracked_messages

\* A pass goes on after a delete_message that failed
C2_Witness ==
    /\ sw.pc = "deleting"
    /\ sw.failed # {}
    /\ \A k \in sw.failed : k \notin DOMAIN tracked_messages /\ deleterCalls[k] = 1

\* C3: when sync_repo is over, the pull was invoked iff the script was
\* absent or did not exit 0; a script that exits 0 gives true without a
\* pull; without a script the pull alone decides the result.
C3_PullIffScriptFailed ==
    sync.pc = "done" =>
      /\ (sync.pullCalls > 0) <=>
            (~sync.scriptPresent \/ sync.scriptRes \in {"nonzero", "timeout", "error"})
      /\ sync.scriptRes = "exit0" => (sync.result = "true" /\ sync.pullCalls = 0)
      /\ ~sync.scriptPresent =>
            sync.result = (IF sync.pullRes.raised THEN "false" ELSE "true")

\* C4: on the fallback path sync_repo returns true whenever the pull
\* completed, false exactly when invoking it raised, and never raises.
C4_FallbackResult ==
    (sync.pc = "done" /\ sync.pullCalls > 0) =>
      /\ sync.result # "raised"
      /\ (sync.result = "false") <=> sync.pullRes.raised

\* C5: a pull that exits non-zero with "Already up to date" gives true and
\* no warning; the fallback warns only after a non-zero exit without the
\* marker or after an exception, and a silent call never warns.
C5_MarkerIsQuiet ==
    /\ (/\ sync.pullRes.done /\ ~sync.pullRes.raised
        /\ sync.pullRes.returncode # 0 /\ sync.pullRes.uptodate)
          => (sync.pc = "done" /\ sync.result = "true" /\ sync.pullWarn = 0)
    /\ sync.pullWarn > 0 =>
          \/ sync.pullRes.raised
          \/ sync.pullRes.returncode # 0 /\ ~sync.pullRes.uptodate
    /\ sync.silent => (sync.pullWarn = 0 /\ sync.scriptWarn = 0)

\* A call that could warn saw a non-zero pull with the marker
C5_Witness ==
    /\ sync.pc = "done"
    /\ Notifies(sync)
    /\ ~sync.pullRes.raised
    /\ sync.pullRes.returncode # 0
    /\ sync.pullRes.uptodate

\* C6: for a log of N well-formed entries and a count n >= 0 the read
\* returns exactly the last min(n, N) entries in append order.
C6_ReadsLastN ==
    (/\ h.pc = "cmd_send" /\ h.kind = "audit" /\ h.count >= 0
     /\ \A i \in 1..Len(auditFile) : WellFormed(auditFile[i]))
      => h.entries = LastN(auditFile, Min(h.count, Len(auditFile)))

\* C7: a malformed line inside the selected window is skipped: the read
\* returns the well-formed lines of the window.
C7_SkipsMalformed ==
    (h.pc = "cmd_send" /\ h.kind = "audit")
      => h.entries = SelectSeq(RecentLines(auditFile, h.count), WellFormed)

\* C8: an update is handled further only for the allow-listed caller; every
\* other update is dropped in the step that dispatches it, leaving one
\* UNAUTHORIZED audit entry and nothing else: no send, no sync, no tool, no
\* change of sessions or tracking.
C8_UnauthorizedDropped ==
    /\ [](h.pc # "idle" => h.user = ALLOWED_USER_ID)
    /\ [](\A i \in 1..Len(opLog) :
            opLog[i].user_id \notin {0, ALLOWED_USER_ID} =>
              /\ opLog[i].event = "UNAUTHORIZED"
              /\ \A j \in 1..Len(opLog) : opLog[j].upd = opLog[i].upd => j = i
              /\ \A j \in 1..Len(auditFile) :
                   auditFile[j].upd = opLog[i].upd => auditFile[j] = opLog[i])
    /\ [][(updates' = updates + 1 /\ h'.pc = "idle") =>
            /\ Len(opLog') = Len(opLog) + 1
            /\ opLog'[Len(opLog')].event = "UNAUTHORIZED"
            /\ opLog'[Len(opLog')].user_id # ALLOWED_USER_ID
            /\ opLog'[Len(opLog')].upd = updates'
            /\ SubSeq(opLog', 1, Len(opLog)) = opLog
            /\ UNCHANGED <<running, user_sessions, tracked_messages, nextMsgId,
                           lastUpdate, h, sync, sw, timerPc>>]_vars

\* An update of another caller has been dropped
C8_Witness ==
    /\ h.pc = "idle"
    /\ updates > 0
    /\ opLog[Len(opLog)].event = "UNAUTHORIZED"
    /\ opLog[Len(opLog)].upd = updates

C10_SessionsOff ==
    ~MESSAGE_SESSION =>
      /\ DOMAIN user_sessions = {}
      /\ lastUpdate = NoUpdate
      /\ h.active_session = NoToken
      /\ h.session = NoSession
      /\ h.cmd \in {NoCmd, Cmd("new", NoToken, FALSE)}

\* With sessions disabled the tool answered with a session id all the same
C10_Witness ==
    /\ ~MESSAGE_SESSION
    /\ h.pc = "edit"
    /\ h.cmd = Cmd("new", NoToken, FALSE)
    /\ h.tool.stdout = "json"
    /\ h.tool.session_id # NoToken

\* The except clause of handle_message was entered from steps 2-6: the
\* process could not be started, or parsing its output raised
StepsFailed ==
    /\ h.pc = "err_edit"
    /\ h.cmd # NoCmd
    /\ \/ h.tool = NoTool
       \/ ParsesStructured /\ ParseRaises(h.tool)

\* C11: a query whose steps 2-6 raised ends with exactly one audit entry,
\* an ERROR entry, and no QUERY entry.
C11_ErrorAudited ==
    [][(StepsFailed /\ h'.pc = "idle") =>
          /\ \E i \in 1..Len(opLog') :
               /\ opLog'[i].upd = h.upd
               /\ opLog'[i].event = "ERROR"
               /\ \A j \in 1..Len(opLog') : opLog'[j].upd = h.upd => j = i]_vars

\* C12: while an external process runs (the AI tool, the sync script, the
\* pull) the event loop is free for other events and the background loops.
C12_ExternalOutOfLine ==
    (h.pc = "tool" \/ sync.pc \in {"script_run", "pull_run"}) => running = "loop"

\* C13: in auto mode the pre-query sync always hands over to the query
\* (session lookup and tool invocation), whatever its result, and a query
\* that got past its status message ends with a QUERY or an ERROR entry.
C13_SyncNeverBlocks ==
    /\ [][(h.pc = "pre_sync" /\ h'.pc # "pre_sync") => h'.pc = "resolve"]_vars
    /\ [][(/\ JOURNAL_SYNC_MODE = "auto"
           /\ h.kind = "message"
           /\ h.pc \notin {"idle", "send_status"}
           /\ h'.pc = "idle")
            => \E i \in 1..Len(opLog') :
                 /\ opLog'[i].upd = h.upd
                 /\ opLog'[i].event \in {"QUERY", "ERROR"}]_vars

\* C14: with sessions disabled, the query "What did I write last Tuesday?"
\* answered with "You wrote about the hike." is audited as QUERY with
\* query_length 30, its text is the tool's text without truncation mark,
\* and no session is stored.
C14_EndToEnd ==
    (/\ ~MESSAGE_SESSION
     /\ h.pc = "done"
     /\ h.user_query = HikeQuery
     /\ h.reply.stdout = HikeText
     /\ h.shown # NotShown)
      => /\ opLog[Len(opLog)].event = "QUERY"
         /\ opLog[Len(opLog)].query_length = 30
         /\ opLog[Len(opLog)].response_length = Len(HikeText)
         /\ h.output = HikeText
         /\ h.shown \in {Formatted(HikeText, c) : c \in BOOLEAN}
         /\ user_sessions = << >>
         /\ lastUpdate = NoUpdate

\* The example query has been answered and audited
C14_Witness ==
    /\ ~MESSAGE_SESSION
    /\ h.pc = "done"
    /\ h.user_query = HikeQuery
    /\ h.reply.stdout = HikeText
    /\ h.shown # NotShown
    /\ opLog[Len(opLog)].event = "QUERY"
    /\ h.output = HikeText

\* C14 as worded: the QUERY entry of the example carries query_length 31.
C14_AsWorded ==
    (/\ ~MESSAGE_SESSION
     /\ h.pc = "done"
     /\ h.user_query = HikeQuery
     /\ h.reply.stdout = HikeText
     /\ h.shown # NotShown)
      => /\ opLog[Len(opLog)].event = "QUERY"
         /\ opLog[Len(opLog)].query_length = 31
         /\ h.output = HikeText

\* C15: /audit lists at most 50 entries whatever integer it is given, and
\* takes 10 as the count when the argument is no number.
C15_AtMostFifty ==
    (h.pc = "cmd_send" /\ h.kind = "audit") =>
      /\ Len(h.entries) <= AUDIT_MAX_COUNT
      /\ (h.arg.given /\ ~h.arg.numeric) => h.count = AUDIT_DEFAULT_COUNT

\* The handler's position right after it audited `entry`
AfterAudit(entry) ==
    CASE entry.event = "COMMAND" -> "cmd_send"
      [] entry.event = "QUERY" ->
           IF JOURNAL_SYNC_MODE = "auto" THEN "post_sync" ELSE "idle"
      [] OTHER -> "idle"

\* C16: audit_log never stops its caller and never drops an event: every
\* well-formed line of the file is in the operational log, every step that
\* touches the file adds one operational line, the dispatch of a command or
\* of a stranger's update adds one whether the write succeeded or not, and
\* after each audited event the handler is where it goes on from.
C16_AuditNeverFatal ==
    /\ [](\A i \in 1..Len(auditFile) :
            WellFormed(auditFile[i]) => auditFile[i] \in Range(opLog))
    /\ [][(auditFile' # auditFile \/ auditTailOpen' # auditTailOpen) =>
            /\ Len(opLog') = Len(opLog) + 1
            /\ SubSeq(opLog', 1, Len(opLog)) = opLog]_vars
    /\ [][(updates' = updates + 1 /\ h'.pc # "send_status") =>
            /\ Len(opLog') = Len(opLog) + 1
            /\ opLog'[Len(opLog')].upd = updates']_vars
    /\ [][Len(opLog') = Len(opLog) + 1 =>
            h'.pc = AfterAudit(opLog'[Len(opLog')])]_vars

\* The write of a COMMAND entry failed: the entry is in the operational
\* log only, and the command is being answered
C16_Witness ==
    /\ h.pc = "cmd_send"
    /\ opLog[Len(opLog)].event = "COMMAND"
    /\ opLog[Len(opLog)].upd = h.upd
    /\ \A i \in 1..Len(auditFile) : auditFile[i].upd # h.upd

\* The step in which communicate() returns to handle_message
ToolReturns == h.pc = "tool" /\ h'.pc # "tool"

\* C17: with sessions enabled, output that is not the expected object
\* (plain text, nothing, JSON that is no object, an object without
\* session_id) does not abort the query: the answer is edited in and the
\* session map stays as it was.
C17_ParseFallback ==
    [][(/\ ToolReturns /\ MESSAGE_SESSION
        /\ h'.tool.stdout \in {"text", "empty", "json_notobj", "json_nosid"})
          => (h'.pc = "edit" /\ UNCHANGED user_sessions)]_vars

\* C18: a QUERY entry is written only for a tool run that exited 0; a run
\* that exits non-zero goes to the error path and stores no session.
C18_ToolFailureIsError ==
    /\ [](\A i \in 1..Len(opLog) :
            opLog[i].event = "QUERY" => opLog[i].exit_code = 0)
    /\ [][(ToolReturns /\ h'.tool.returncode # 0)
            => (h'.pc = "err_edit" /\ UNCHANGED user_sessions)]_vars

\* C19: whichever step removes a session, the session is expired at that
\* moment; a pass of the retention loop ends without removing a session
\* last refreshed at or after the clock reading of the pass.
C19_RemovedOnlyExpired ==
    /\ [][\A u \in DOMAIN user_sessions :
            u \notin DOMAIN user_sessions' =>
              now > user_sessions[u].last_active + MESSAGE_SESSION_EXPIRY]_vars
    /\ [][(sw.pc = "deleting" /\ sw'.pc = "sleep") =>
            \A u \in DOMAIN user_sessions :
              user_sessions[u].last_active >= sw.current_time
                => (u \in DOMAIN user_sessions' /\ user_sessions'[u] = user_sessions[u])]_vars

\* A pass is awaiting the deleter while the second query's session, no
\* older than the pass's clock reading, is stored
C19_Witness ==
    /\ sw.pc = "deleting"
    /\ ALLOWED_USER_ID \in DOMAIN user_sessions
    /\ user_sessions[ALLOWED_USER_ID].last_active >= sw.current_time
    /\ user_sessions[ALLOWED_USER_ID].session_id = FreshToken(2)

\* C20: a pass only ever handles keys that are tracked and older than its
\* cutoff; a key leaves tracking only as the head of the pass's list;
\* timestamps never change; a track_message made while a pass awaits the
\* deleter adds its key and leaves the pass and all other keys alone; when
\* the pass ends no key older than its cutoff is left.
C20_TrackDuringSweep ==
    /\ [](sw.pc = "deleting" =>
            \A i \in 1..Len(sw.todo) :
              /\ sw.todo[i] \in DOMAIN tracked_messages
              /\ tracked_messages[sw.todo[i]] < sw.current_time - RetentionTicks)
    /\ [][\A k \in DOMAIN tracked_messages :
            IF k \in DOMAIN tracked_messages'
            THEN tracked_messages'[k] = tracked_messages[k]
            ELSE sw.pc = "deleting" /\ k = Head(sw.todo)]_vars
    /\ [][(sw.pc = "deleting" /\ ~(DOMAIN tracked_messages' \subseteq DOMAIN tracked_messages))
            => (sw' = sw /\ DOMAIN tracked_messages \subseteq DOMAIN tracked_messages')]_vars
    /\ [][(sw.pc = "deleting" /\ sw'.pc = "sleep") =>
            \A k \in DOMAIN tracked_messages' :
              tracked_messages'[k] >= sw.current_time - RetentionTicks]_vars

\* A handler tracked its message while a pass awaits the deleter: the key
\* is tracked and not on the pass's list
C20_Witness ==
    /\ sw.pc = "deleting"
    /\ h.pc = "send_status"
    /\ \E k \in DOMAIN tracked_messages :
         /\ k[2] = nextMsgId - 1
         /\ tracked_messages[k] >= sw.current_time
         /\ k \notin Range(sw.todo)

\* C21: with sessions enabled, a session that has outlived its expiry is
\* eventually removed or refreshed, lookup or not, and a pass of the
\* retention loop always ends, after failed deletions too.
C21_StaleSessionsSwept ==
    /\ \A u \in Users, t \in 0..MaxTime :
         (/\ MESSAGE_SESSION
          /\ u \in DOMAIN user_sessions
          /\ user_sessions[u].last_active = t
          /\ now > t + MESSAGE_SESSION_EXPIRY)
           ~> (\/ u \notin DOMAIN user_sessions
               \/ user_sessions[u].last_active # t)
    /\ (sw.pc = "deleting") ~> (sw.pc = "sleep")

\* The session of the last update is gone, so no lookup removed it: a pass
\* that had messages to delete has swept it
C21_Witness ==
    /\ MESSAGE_SESSION
    /\ lastUpdate.token = FreshToken(updates)
    /\ user_sessions = << >>
    /\ sw.pc = "sleep"
    /\ deleterCalls # << >>
    /\ tracked_messages = << >>

\* The step in which audit_log is called with a QUERY entry
QueryAudited ==
    /\ Len(opLog') = Len(opLog) + 1
    /\ opLog'[Len(opLog')].event = "QUERY"

\* C22: a sync_repo call belongs to a query handler only in auto mode and
\* to the timer loop only in timer mode, where the loop exists; in auto mode
\* the session lookup and the tool come right after the pre-query sync, in
\* timer mode right after the status message; the QUERY entry is followed
\* by a silent sync in auto mode and by nothing in timer mode; a post-query
\* sync is entered only by the step that audits the QUERY.
C22_SyncPolicy ==
    /\ [](sync.owner = "handler" => JOURNAL_SYNC_MODE = "auto")
    /\ [](sync.owner = "timer" => JOURNAL_SYNC_MODE = "timer")
    /\ [](timerPc # "off" <=> JOURNAL_SYNC_MODE = "timer")
    /\ [](h.pc \in {"pre_sync", "post_sync"} =>
            /\ JOURNAL_SYNC_MODE = "auto"
            /\ sync.owner = "handler"
            /\ sync.silent = (h.pc = "post_sync"))
    /\ [][(h.pc # "resolve" /\ h'.pc = "resolve") =>
            h.pc = (IF JOURNAL_SYNC_MODE = "auto" THEN "pre_sync" ELSE "send_status")]_vars
    /\ [][QueryAudited =>
            IF JOURNAL_SYNC_MODE = "auto"
            THEN h'.pc = "post_sync" /\ sync'.pc # "idle" /\ sync'.silent
            ELSE h'.pc = "idle" /\ sync' = sync]_vars
    /\ [][(h.pc # "post_sync" /\ h'.pc = "post_sync") =>
            (QueryAudited /\ opLog'[Len(opLog')].upd = h.upd)]_vars

\* In timer mode a query waits for the tool, having run no sync, while the
\* timer loop's sync is in progress
C22_Witness ==
    /\ JOURNAL_SYNC_MODE = "timer"
    /\ h.pc = "tool"
    /\ timerPc = "syncing"
    /\ sync.owner = "timer"
    /\ sync.pc \in {"script_run", "pull_run"}

\* C23: no update has both a QUERY and an ERROR entry; the post-query sync
\* sends no warning, never raises, and the handler leaves it only by
\* returning.
C23_QueryXorError ==
    /\ [](\A i, j \in 1..Len(opLog) :
            (opLog[i].upd = opLog[j].upd /\ opLog[i].event = "QUERY")
              => opLog[j].event # "ERROR")
    /\ [](h.pc = "post_sync" =>
            /\ sync.result # "raised"
            /\ sync.scriptWarn = 0
            /\ sync.pullWarn = 0)
    /\ [][h.pc = "post_sync" => h'.pc \in {"post_sync", "idle"}]_vars

\* The post-query sync of an audited query failed: the script did not exit
\* 0 and the pull raised
C23_Witness ==
    /\ h.pc = "post_sync"
    /\ sync.pc = "done"
    /\ sync.scriptRes \in {"nonzero", "timeout", "error"}
    /\ sync.pullRes.raised
    /\ sync.result = "false"
    /\ \E i \in 1..Len(opLog) : opLog[i].upd = h.upd /\ opLog[i].event = "QUERY"

====
